---- MODULE Spec2Model ----
(***************************************************************************)
(* Model of app.py, the Stock Analytics Dashboard script.                  *)
(*                                                                         *)
(* The script is re-executed top to bottom on every user interaction.  A   *)
(* run reads the sidebar widgets, calls the memoized load_price_data,      *)
(* stops on missing data, computes the basic statistics, and renders the   *)
(* KPI cards and the three tabs.  The only state that survives a run is    *)
(* the cache of load_price_data.                                           *)
(*                                                                         *)
(* Floating-point numbers are modelled as exact rationals extended with    *)
(* NaN and signed infinity; rounding is abstracted away.                   *)
(***************************************************************************)
EXTENDS Integers, Sequences, FiniteSets, TLC

\* ------------------------------------------------------------------------
\* Bounds of the model
\* ------------------------------------------------------------------------
MaxBars == 6
MaxSessionBars == 1

\* ------------------------------------------------------------------------
\* Program constants
\* ------------------------------------------------------------------------
MA_SHORT_MIN == 5
MA_SHORT_DEFAULT == 20
MA_SHORT_MAX == 50
MA_LONG_MIN == 50
MA_LONG_MAX == 200
TRADING_DAYS == 252

\* ------------------------------------------------------------------------
\* float64 values: k = "num" (n/d, d > 0, reduced), "inf" (sign n), "nan"
\* ------------------------------------------------------------------------
Abs(x) == IF x < 0 THEN -x ELSE x

Sign(x) == IF x < 0 THEN -1 ELSE IF x > 0 THEN 1 ELSE 0

RECURSIVE GCD(_, _)
GCD(a, b) == IF b = 0 THEN a ELSE GCD(b, a % b)

NaN == [k |-> "nan", n |-> 0, d |-> 1]

Inf(s) == [k |-> "inf", n |-> s, d |-> 1]

Rat(n, d) ==
    LET g == GCD(Abs(n), Abs(d))
    IN  [k |-> "num", n |-> (Sign(d) * n) \div g, d |-> Abs(d) \div g]

Num(n) == [k |-> "num", n |-> n, d |-> 1]

IsNaN(x) == x.k = "nan"

IsNum(x) == x.k = "num"

FNeg(x) == IF x.k = "nan" THEN NaN ELSE [x EXCEPT !.n = -x.n]

FAdd(x, y) ==
    IF x.k = "nan" \/ y.k = "nan" THEN NaN
    ELSE IF x.k = "inf" /\ y.k = "inf" THEN (IF x.n = y.n THEN x ELSE NaN)
    ELSE IF x.k = "inf" THEN x
    ELSE IF y.k = "inf" THEN y
    ELSE Rat(x.n * y.d + y.n * x.d, x.d * y.d)

FSub(x, y) == FAdd(x, FNeg(y))

FMul(x, y) ==
    IF x.k = "nan" \/ y.k = "nan" THEN NaN
    ELSE IF x.k = "inf" \/ y.k = "inf"
         THEN (IF x.n = 0 \/ y.n = 0 THEN NaN ELSE Inf(Sign(x.n) * Sign(y.n)))
    ELSE Rat(x.n * y.n, x.d * y.d)

FDiv(x, y) ==
    IF x.k = "nan" \/ y.k = "nan" THEN NaN
    ELSE IF x.k = "inf" /\ y.k = "inf" THEN NaN
    ELSE IF x.k = "inf" THEN Inf(IF y.n < 0 THEN -x.n ELSE x.n)
    ELSE IF y.k = "inf" THEN Num(0)
    ELSE IF y.n = 0 THEN (IF x.n = 0 THEN NaN ELSE Inf(Sign(x.n)))
    ELSE Rat(x.n * y.d, x.d * y.n)

RECURSIVE FSum(_)
FSum(s) == IF s = <<>> THEN Num(0) ELSE FAdd(FSum(SubSeq(s, 1, Len(s) - 1)), s[Len(s)])

\* ------------------------------------------------------------------------
\* pandas Series operations used by the script (a Series is a sequence)
\* ------------------------------------------------------------------------
\* Series.ffill(): a missing value takes the last value before it.
RECURSIVE FFill(_)
FFill(s) ==
    IF Len(s) <= 1 THEN s
    ELSE LET h == FFill(SubSeq(s, 1, Len(s) - 1))
         IN  Append(h, IF IsNaN(s[Len(s)]) THEN h[Len(h)] ELSE s[Len(s)])

\* Series.shift(1)
Shift(s) == [i \in 1..Len(s) |-> IF i = 1 THEN NaN ELSE s[i - 1]]

PctChangeOverCurrent(s, pad) ==
    LET filled == IF pad THEN FFill(s) ELSE s
        shifted == Shift(filled)
    IN  [i \in 1..Len(s) |-> FDiv(FSub(filled[i], shifted[i]), filled[i])]

\* Series.pct_change(): data / data.shift(1) - 1.  `pad` tells whether the
\* installed pandas forward-fills missing values first (the default
\* fill_method of pandas before 3.0) or not.
PctChange(s, pad) ==
    LET filled == IF pad THEN FFill(s) ELSE s
        shifted == Shift(filled)
    IN  [i \in 1..Len(s) |-> FSub(FDiv(filled[i], shifted[i]), Num(1))]

\* Series.dropna()
RECURSIVE DropNa(_)
DropNa(s) ==
    IF s = <<>> THEN <<>>
    ELSE LET h == DropNa(SubSeq(s, 1, Len(s) - 1))
         IN  IF IsNaN(s[Len(s)]) THEN h ELSE Append(h, s[Len(s)])

\* Series.mean(): missing values are skipped.
Mean(s) == LET v == DropNa(s) IN IF v = <<>> THEN NaN ELSE FDiv(FSum(v), Num(Len(v)))

\* nanops.nanvar with ddof: mean first, then the sum of squared deviations
\* divided by count - ddof; NaN when count <= ddof.
NanVar(s, ddof) ==
    LET v == DropNa(s)
        count == Len(v)
        avg == FDiv(FSum(v), Num(count))
        sqr == FSum([i \in 1..count |-> FMul(FSub(avg, v[i]), FSub(avg, v[i]))])
    IN  IF count <= ddof THEN NaN ELSE FDiv(sqr, Num(count - ddof))

StdSqPopulation(s) == NanVar(s, 0)

\* Series.std() is the sample standard deviation (ddof = 1).  The model
\* carries the square of every standard deviation, which is an exact
\* rational; NaN stays NaN.
StdSq(s) == NanVar(s, 1)

\* Series.rolling(w).mean() as the sliding-window kernel computes it: the
\* state after bar i is the number of observations and their sum over the
\* trailing window; entering values are added, leaving values removed.
RECURSIVE RollState(_, _, _)
RollState(s, w, i) ==
    IF i = 0 THEN [nobs |-> 0, sum |-> Num(0)]
    ELSE LET prev == RollState(s, w, i - 1)
             added == IF IsNaN(s[i]) THEN prev
                      ELSE [nobs |-> prev.nobs + 1, sum |-> FAdd(prev.sum, s[i])]
         IN  IF i > w /\ ~IsNaN(s[i - w])
             THEN [nobs |-> added.nobs - 1, sum |-> FSub(added.sum, s[i - w])]
             ELSE added

RollingMeanPartial(s, w) ==
    [i \in 1..Len(s) |->
        LET st == RollState(s, w, i)
        IN  IF st.nobs >= 1 THEN FDiv(st.sum, Num(st.nobs)) ELSE NaN]

\* min_periods defaults to the window length.
RollingMean(s, w) ==
    [i \in 1..Len(s) |->
        LET st == RollState(s, w, i)
        IN  IF st.nobs >= w THEN FDiv(st.sum, Num(st.nobs)) ELSE NaN]

\* ------------------------------------------------------------------------
\* DataFrames: an index, an ordered list of column names and the columns.
\* A column name is a tuple; f"MA {w}" is the tuple <<"MA", w>>.
\* ------------------------------------------------------------------------
Column(name) == <<name>>

MAName(w) == <<"MA", w>>

NoColumns == [c \in {} |-> <<>>]

NoneFrame == [none |-> TRUE, index |-> <<>>, columns |-> <<>>, col |-> NoColumns]

Range(s) == {s[i] : i \in 1..Len(s)}

HasColumn(df, c) == c \in Range(df.columns)

NRows(df) == Len(df.index)

\* DataFrame.empty: some axis has length 0.
IsEmpty(df) == Len(df.index) = 0 \/ Len(df.columns) = 0

\* data[c] = v: overwrite the column in place, or append a new one.
SetColumn(df, c, v) ==
    [df EXCEPT !.columns = IF HasColumn(df, c) THEN @ ELSE Append(@, c),
               !.col = (c :> v) @@ @]

\* data.rename_axis("Date").reset_index(): the index becomes the first
\* column and is replaced by 0..n-1.
ResetIndex(df) ==
    [none |-> FALSE,
     index |-> [i \in 1..Len(df.index) |-> Num(i - 1)],
     columns |-> <<Column("Date")>> \o df.columns,
     col |-> (Column("Date") :> df.index) @@ df.col]

\* ------------------------------------------------------------------------
\* The market-data provider (yf.download), an external collaborator
\* ------------------------------------------------------------------------
PriceVals == {NaN, Num(0), Num(1), Num(2)}

SeriesUpTo(n) == UNION {[1..k -> PriceVals] : k \in 0..n}

ProviderColumns ==
    <<Column("Open"), Column("High"), Column("Low"), Column("Close"),
      Column("Adj Close"), Column("Volume")>>

FMax(x, y) == IF IsNaN(x) \/ IsNaN(y) THEN NaN
              ELSE IF x.n * y.d >= y.n * x.d THEN x ELSE y

FMin(x, y) == IF IsNaN(x) \/ IsNaN(y) THEN NaN
              ELSE IF x.n * y.d <= y.n * x.d THEN x ELSE y

\* The bars the provider serves when the adjusted closes are s: the close
\* is above the adjusted close, a bar opens at the previous close, and the
\* volume grows by 100 a bar.
ProviderValues(s) ==
    LET close == [i \in 1..Len(s) |-> FAdd(s[i], Num(1))]
        open == [i \in 1..Len(s) |-> IF i = 1 THEN close[1] ELSE close[i - 1]]
    IN  [c \in Range(ProviderColumns) |->
            CASE c = Column("Open") -> open
              [] c = Column("High") -> [i \in 1..Len(s) |-> FMax(open[i], close[i])]
              [] c = Column("Low") -> [i \in 1..Len(s) |-> FMin(open[i], close[i])]
              [] c = Column("Close") -> close
              [] c = Column("Adj Close") -> s
              [] OTHER -> [i \in 1..Len(s) |-> Num(100 * i)]]

\* The frame yf.download returns: one row per date, without the columns in
\* `missing`.
ProviderFrame(s, missing) ==
    LET vals == ProviderValues(s)
    IN  [none |-> FALSE,
         index |-> [i \in 1..Len(s) |-> Num(i)],
         columns |-> SelectSeq(ProviderColumns, LAMBDA c : c \notin missing),
         col |-> [c \in Range(ProviderColumns) \ missing |-> vals[c]]]

Ramp(n) == [i \in 1..n |-> Num(1 + (i % 2))]

MissingSets ==
    {{}, {Column("Adj Close")}, {Column("Open"), Column("Volume")},
     Range(ProviderColumns)}

\* What one call of yf.download can do in a session: raise, or return a
\* frame of 0..MaxSessionBars rows.
ProviderOutcomes ==
    {[raised |-> TRUE, frame |-> NoneFrame]} \cup
    {[raised |-> FALSE, frame |-> ProviderFrame(Ramp(n), m)] :
        n \in 0..MaxSessionBars, m \in MissingSets}

\* ------------------------------------------------------------------------
\* load_price_data: the body under the cache decorator
\* ------------------------------------------------------------------------
\* The result is [raised, value]; raised tells whether an exception leaves
\* the function.
load_price_data_uncaught(o) ==
    IF o.raised THEN [raised |-> TRUE, value |-> NoneFrame]
    ELSE IF IsEmpty(o.frame) THEN [raised |-> FALSE, value |-> NoneFrame]
    ELSE [raised |-> FALSE, value |-> ResetIndex(o.frame)]

load_price_data_unchecked(o) ==
    IF o.raised THEN [raised |-> FALSE, value |-> NoneFrame]
    ELSE [raised |-> FALSE, value |-> ResetIndex(o.frame)]

load_price_data(o) ==
    IF o.raised THEN [raised |-> FALSE, value |-> NoneFrame]
    ELSE IF IsEmpty(o.frame) THEN [raised |-> FALSE, value |-> NoneFrame]
    ELSE [raised |-> FALSE, value |-> ResetIndex(o.frame)]

\* ------------------------------------------------------------------------
\* Widgets and their options
\* ------------------------------------------------------------------------
\* The sidebar values the user moves between: (ticker, start, end, interval).
\* Dates are day numbers.
Inputs ==
    {<<"", 1, 2, "1d">>, <<"AAPL", 1, 2, "1d">>, <<"MSFT", 1, 2, "1d">>,
     <<"AAPL", 1, 3, "1d">>, <<"AAPL", 1, 2, "1wk">>}

Keys == Inputs

ShortChoices == {MA_SHORT_MIN, MA_SHORT_MAX}

LongChoices == {MA_LONG_MIN, MA_LONG_MAX}

PriceTypes == {Column("Adj Close"), Column("Close"), Column("Open")}

\* ------------------------------------------------------------------------
\* State
\* ------------------------------------------------------------------------
VARIABLES
    ticker, start_date, end_date, interval,  \* sidebar widget values of the run
    ma_short, ma_long, price_column,         \* widget values read in the price tab
    cache,                                   \* st.cache_data store of load_price_data
    downloads,                               \* calls of yf.download, per argument tuple
    requested,                               \* tuples some run has called load_price_data with
    response,                                \* what yf.download did in this run, if called
    pc,                                      \* position of the script run
    data, returns,
    last_close, prev_close, daily_change_pct, annualized_vol, avg_volume,
    rendered,                                \* elements on the page
    kpi,                                     \* text of the metric cards
    fig_price,                               \* y series of the price chart
    csv                                      \* header row of the exported CSV

vars ==
    <<ticker, start_date, end_date, interval, ma_short, ma_long, price_column,
      cache, downloads, requested, response, pc, data, returns, last_close,
      prev_close, daily_change_pct, annualized_vol, avg_volume, rendered, kpi,
      fig_price, csv>>

sessionVars == <<cache, downloads, requested>>

inputVars == <<ticker, start_date, end_date, interval>>

tabVars == <<ma_short, ma_long, price_column, fig_price>>

statVars ==
    <<returns, last_close, prev_close, daily_change_pct, annualized_vol, avg_volume>>

Key == <<ticker, start_date, end_date, interval>>

NoCall == [called |-> FALSE, outcome |-> [raised |-> FALSE, frame |-> NoneFrame]]

NoCards == [c \in {} |-> ""]

\* The script's variables before the run assigns them.
FreshRun ==
    /\ ma_short' = MA_SHORT_DEFAULT
    /\ ma_long' = MA_LONG_MIN
    /\ price_column' = Column("Adj Close")
    /\ response' = NoCall
    /\ data' = NoneFrame
    /\ returns' = <<>>
    /\ last_close' = NaN
    /\ prev_close' = NaN
    /\ daily_change_pct' = NaN
    /\ annualized_vol' = NaN
    /\ avg_volume' = NaN
    /\ kpi' = NoCards
    /\ fig_price' = <<>>
    /\ csv' = <<>>

Init ==
    /\ ticker = "AAPL"
    /\ start_date = 1
    /\ end_date = 2
    /\ interval = "1d"
    /\ ma_short = MA_SHORT_DEFAULT
    /\ ma_long = MA_LONG_MIN
    /\ price_column = Column("Adj Close")
    /\ cache = [k \in Keys |-> [present |-> FALSE, value |-> NoneFrame]]
    /\ downloads = [k \in Keys |-> 0]
    /\ requested = [k \in Keys |-> FALSE]
    /\ response = NoCall
    /\ pc = "idle"
    /\ data = NoneFrame
    /\ returns = <<>>
    /\ last_close = NaN
    /\ prev_close = NaN
    /\ daily_change_pct = NaN
    /\ annualized_vol = NaN
    /\ avg_volume = NaN
    /\ rendered = {}
    /\ kpi = NoCards
    /\ fig_price = <<>>
    /\ csv = <<>>

\* ------------------------------------------------------------------------
\* One run of the script, section by section
\* ------------------------------------------------------------------------
\* Lines 10-52: an interaction starts a run; the sidebar widgets are read;
\* an empty ticker stops the run.
Sidebar ==
    /\ pc \in {"idle", "done", "stopped", "crashed"}
    /\ \E input \in Inputs :
        /\ ticker' = input[1]
        /\ start_date' = input[2]
        /\ end_date' = input[3]
        /\ interval' = input[4]
        /\ IF input[1] = ""
           THEN /\ rendered' = {"title", "info"}
                /\ pc' = "stopped"
           ELSE /\ rendered' = {"title"}
                /\ pc' = "fetch"
    /\ FreshRun
    /\ UNCHANGED sessionVars

CacheStoreUnlessNone(c, k, v) ==
    IF v.none THEN c ELSE [c EXCEPT ![k] = [present |-> TRUE, value |-> v]]

\* st.cache_data stores whatever the function returns, None included.
CacheStore(c, k, v) == [c EXCEPT ![k] = [present |-> TRUE, value |-> v]]

\* Line 54 with the decorator of line 36: a hit returns a copy of the stored
\* value; a miss calls the function and stores what it returns.
FetchData ==
    /\ pc = "fetch"
    /\ requested' = [requested EXCEPT ![Key] = TRUE]
    /\ \/ /\ cache[Key].present
          /\ data' = cache[Key].value
          /\ pc' = "check"
          /\ UNCHANGED <<cache, downloads, response, rendered>>
       \/ /\ ~cache[Key].present
          /\ \E o \in ProviderOutcomes :
                LET r == load_price_data(o)
                IN  /\ downloads' = [downloads EXCEPT ![Key] = @ + 1]
                    /\ response' = [called |-> TRUE, outcome |-> o]
                    /\ IF r.raised
                       THEN /\ pc' = "crashed"
                            /\ rendered' = rendered \cup {"exception"}
                            /\ UNCHANGED <<cache, data>>
                       ELSE /\ cache' = CacheStore(cache, Key, r.value)
                            /\ data' = r.value
                            /\ pc' = "check"
                            /\ UNCHANGED rendered
    /\ UNCHANGED <<inputVars, tabVars, statVars, kpi, csv>>

CheckDataNoStop ==
    /\ pc = "check"
    /\ IF data.none
       THEN /\ rendered' = rendered \cup {"error_no_data"}
            /\ pc' = "stats"
       ELSE IF ~HasColumn(data, Column("Adj Close"))
       THEN /\ rendered' = rendered \cup {"error_adj_close"}
            /\ pc' = "stopped"
       ELSE /\ pc' = "stats"
            /\ UNCHANGED rendered
    /\ UNCHANGED <<inputVars, tabVars, statVars, sessionVars, response, data, kpi, csv>>

\* Lines 56-63: stop without data, stop without the 'Adj Close' column.
CheckData ==
    /\ pc = "check"
    /\ IF data.none
       THEN /\ rendered' = rendered \cup {"error_no_data"}
            /\ pc' = "stopped"
       ELSE IF ~HasColumn(data, Column("Adj Close"))
       THEN /\ rendered' = rendered \cup {"error_adj_close"}
            /\ pc' = "stopped"
       ELSE /\ pc' = "stats"
            /\ UNCHANGED rendered
    /\ UNCHANGED <<inputVars, tabVars, statVars, sessionVars, response, data, kpi, csv>>

\* ------------------------------------------------------------------------
\* Basic statistics (lines 66-73)
\* ------------------------------------------------------------------------
\* Line 70
PrevClose(s) == IF Len(s) > 1 THEN s[Len(s) - 1] ELSE NaN

DailyChangePctUnguarded(last, prev) ==
    FMul(FDiv(FSub(last, prev), prev), Num(100))

\* Line 71
DailyChangePct(last, prev) ==
    IF ~IsNaN(prev) THEN FMul(FDiv(FSub(last, prev), prev), Num(100)) ELSE Num(0)

AnnualizedVolPopulation(r) ==
    IF r # <<>> THEN FMul(StdSqPopulation(r), Num(TRADING_DAYS)) ELSE NaN

\* Line 72.  The value kept is the square of the script's float,
\* std^2 * 252.
AnnualizedVol(r) == IF r # <<>> THEN FMul(StdSq(r), Num(TRADING_DAYS)) ELSE NaN

\* Line 73
AvgVolume(df) ==
    IF HasColumn(df, Column("Volume")) THEN Mean(df.col[Column("Volume")]) ELSE NaN

BasicStats ==
    /\ pc = "stats"
    /\ IF data.none \/ NRows(data) = 0
       THEN \* TypeError at line 66, IndexError at line 69
            /\ pc' = "crashed"
            /\ rendered' = rendered \cup {"exception"}
            /\ UNCHANGED <<data, statVars>>
       ELSE \E pad \in BOOLEAN :
            LET adj == data.col[Column("Adj Close")]
                ret == PctChange(adj, pad)
            IN  /\ data' = SetColumn(data, Column("Return"), ret)
                /\ returns' = DropNa(ret)
                /\ last_close' = adj[Len(adj)]
                /\ prev_close' = PrevClose(adj)
                /\ daily_change_pct' = DailyChangePct(adj[Len(adj)], PrevClose(adj))
                /\ annualized_vol' = AnnualizedVol(DropNa(ret))
                /\ avg_volume' = AvgVolume(data)
                /\ pc' = "kpi"
                /\ UNCHANGED rendered
    /\ UNCHANGED <<inputVars, tabVars, sessionVars, response, kpi, csv>>

\* Lines 75-88: the four metric cards.  A card's text is "N/A" or the
\* formatted number, recorded as "value".
Overview ==
    /\ pc = "kpi"
    /\ kpi' = [c \in {"Last Close", "Daily Change", "Annualized Volatility",
                      "Average Volume"} |->
                CASE c = "Annualized Volatility" ->
                        IF ~IsNaN(annualized_vol) THEN "value" ELSE "N/A"
                  [] c = "Average Volume" ->
                        IF ~IsNaN(avg_volume) THEN "value" ELSE "N/A"
                  [] OTHER -> "value"]
    /\ rendered' = rendered \cup {"subheader", "kpi"}
    /\ pc' = "tab_price"
    /\ UNCHANGED <<inputVars, tabVars, statVars, sessionVars, response, data, csv>>

\* ------------------------------------------------------------------------
\* The tabs (lines 91-165)
\* ------------------------------------------------------------------------
\* Lines 107-108: two assignments, the second after the first.
AddMovingAveragesPartial(df, c, s, l) ==
    LET first == SetColumn(df, MAName(s), RollingMeanPartial(df.col[c], s))
    IN  SetColumn(first, MAName(l), RollingMeanPartial(first.col[c], l))

AddMovingAverages(df, c, s, l) ==
    LET first == SetColumn(df, MAName(s), RollingMean(df.col[c], s))
    IN  SetColumn(first, MAName(l), RollingMean(first.col[c], l))

TabPrice ==
    /\ pc = "tab_price"
    /\ \E s \in ShortChoices, l \in LongChoices, c \in PriceTypes :
        /\ ma_short' = s
        /\ ma_long' = l
        /\ price_column' = c
        /\ IF ~HasColumn(data, c)
           THEN \* KeyError at line 107
                /\ pc' = "crashed"
                /\ rendered' = rendered \cup {"exception"}
                /\ UNCHANGED <<data, fig_price>>
           ELSE /\ data' = AddMovingAverages(data, c, s, l)
                /\ fig_price' = <<c, MAName(s), MAName(l)>>
                /\ rendered' = rendered \cup {"price_chart"}
                /\ pc' = "tab_returns"
    /\ UNCHANGED <<inputVars, statVars, sessionVars, response, kpi, csv>>

TabReturns ==
    /\ pc = "tab_returns"
    /\ IF returns = <<>>
       THEN rendered' = rendered \cup {"returns_warning"}
       ELSE rendered' = rendered \cup {"returns_chart", "returns_summary", "returns_hist"}
    /\ pc' = "tab_table"
    /\ UNCHANGED <<inputVars, tabVars, statVars, sessionVars, response, data, kpi, csv>>

\* to_csv(index=False): the header row is the list of columns.
TabTable ==
    /\ pc = "tab_table"
    /\ csv' = data.columns
    /\ rendered' = rendered \cup {"table", "download_button"}
    /\ pc' = "done"
    /\ UNCHANGED <<inputVars, tabVars, statVars, sessionVars, response, data, kpi>>

\* ------------------------------------------------------------------------
\* Specifications
\* ------------------------------------------------------------------------
Next ==
    \/ Sidebar
    \/ FetchData
    \/ CheckData
    \/ BasicStats
    \/ Overview
    \/ TabPrice
    \/ TabReturns
    \/ TabTable

Spec == Init /\ [][Next]_vars

\* A run that has passed the checks of lines 56-63 with a frame of
\* 1..MaxBars bars whose adjusted closes are any values of PriceVals.
InitStats ==
    \E s \in SeriesUpTo(MaxBars) \ {<<>>} :
        LET o == [raised |-> FALSE, frame |-> ProviderFrame(s, {})]
            k == <<"AAPL", 1, 2, "1d">>
        IN  /\ ticker = "AAPL"
            /\ start_date = 1
            /\ end_date = 2
            /\ interval = "1d"
            /\ ma_short = MA_SHORT_DEFAULT
            /\ ma_long = MA_LONG_MIN
            /\ price_column = Column("Adj Close")
            /\ data = load_price_data(o).value
            /\ cache = [j \in Keys |->
                          IF j = k THEN [present |-> TRUE, value |-> load_price_data(o).value]
                          ELSE [present |-> FALSE, value |-> NoneFrame]]
            /\ downloads = [j \in Keys |-> IF j = k THEN 1 ELSE 0]
            /\ requested = [j \in Keys |-> j = k]
            /\ response = [called |-> TRUE, outcome |-> o]
            /\ pc = "stats"
            /\ returns = <<>>
            /\ last_close = NaN
            /\ prev_close = NaN
            /\ daily_change_pct = NaN
            /\ annualized_vol = NaN
            /\ avg_volume = NaN
            /\ rendered = {"title"}
            /\ kpi = NoCards
            /\ fig_price = <<>>
            /\ csv = <<>>

NextStats ==
    \/ BasicStats
    \/ Overview
    \/ TabPrice
    \/ TabReturns
    \/ TabTable

SpecStats == InitStats /\ [][NextStats]_vars

\* ------------------------------------------------------------------------
\* Properties
\* ------------------------------------------------------------------------
AfterStats == {"kpi", "tab_price", "tab_returns", "tab_table", "done"}

\* BasicStats has run in this run (the Return column is its first effect).
StatsDone == ~data.none /\ HasColumn(data, Column("Return"))

\* The price tab has computed the moving averages in this run.
PriceTabDone == fig_price # <<>>

AdjClose == data.col[Column("Adj Close")]

\* All prices present and non-zero.
Clean(s) == \A i \in 1..Len(s) : IsNum(s[i]) /\ s[i].n # 0

Content == {"subheader", "kpi", "price_chart", "returns_warning", "returns_chart",
            "returns_summary", "returns_hist", "table", "download_button"}

\* C1: when the fetch for the entered symbol yields None, the run stops at
\* the blocking message: no KPI card, chart, table or download button is
\* rendered in that run.
C1_NoDataHalts ==
    (ticker # "" /\ pc \notin {"idle", "fetch"} /\ data.none) =>
        /\ pc \in {"check", "stopped"}
        /\ rendered \cap Content = {}
        /\ "exception" \notin rendered
        /\ kpi = NoCards /\ fig_price = <<>> /\ csv = <<>>
        /\ pc = "stopped" => "error_no_data" \in rendered

C1_Witness ==
    /\ pc = "stopped" /\ ticker # "" /\ data.none
    /\ response.called /\ response.outcome.raised
    /\ rendered = {"title", "error_no_data"}

\* C2: load_price_data returns None when the provider raises and when it
\* returns an empty frame; no provider error leaves the function; a frame
\* is returned only when the provider returned at least one row.
C2_FetchFailuresAreNone ==
    response.called =>
        /\ ~(pc = "crashed" /\ data.none)
        /\ (response.outcome.raised \/ IsEmpty(response.outcome.frame)) =>
              (data.none /\ cache[Key].present /\ cache[Key].value.none)
        /\ ~data.none =>
              (~response.outcome.raised /\ Len(response.outcome.frame.index) >= 1)

C2_Witness ==
    /\ pc = "check" /\ response.called /\ response.outcome.raised /\ data.none

\* C3: when the configured price field (the field of the returns and KPIs,
\* or the selected 'Price type') is absent from the provider's response,
\* the run stops at a static message with nothing else rendered.
C3_MissingColumnHalts ==
    (/\ ~data.none
     /\ pc # "check"
     /\ \/ ~HasColumn(data, Column("Adj Close"))
        \/ (pc \in {"crashed", "tab_returns", "tab_table", "done"}
              /\ ~HasColumn(data, price_column))) =>
        /\ pc = "stopped"
        /\ rendered \cap (Content \cup {"exception"}) = {}

\* C4: yf.download is called exactly once for every argument tuple some run
\* has fetched, and never for another; a run whose tuple is in the cache,
\* with a frame or with None, gets the cached value without a call.
C4_OneDownloadPerTuple ==
    /\ \A k \in Keys : downloads[k] = IF requested[k] THEN 1 ELSE 0
    /\ (pc = "check" /\ ~response.called) =>
          (cache[Key].present /\ data = cache[Key].value)

C4_Witness ==
    /\ pc = "check" /\ ~response.called /\ data.none
    /\ downloads[Key] = 1
    /\ \E k \in Keys : k # Key /\ downloads[k] = 1

\* C5: for N >= 2 bars with all prices present and non-zero the return
\* series has N-1 entries, entry i being (price[i+1] - price[i]) / price[i]
\* (1-based); for one bar it is empty.
C5_ReturnsFormula ==
    (StatsDone /\ Clean(AdjClose)) =>
        LET p == AdjClose
        IN  /\ Len(returns) = Len(p) - 1
            /\ \A i \in 1..(Len(p) - 1) :
                  /\ IsNum(returns[i])
                  /\ returns[i].n * p[i].n * p[i + 1].d
                        = (p[i + 1].n * p[i].d - p[i].n * p[i + 1].d) * returns[i].d
                  /\ data.col[Column("Return")][i + 1] = returns[i]
            /\ IsNaN(data.col[Column("Return")][1])

C5_Witness ==
    /\ StatsDone /\ Clean(AdjClose) /\ Len(AdjClose) = 3
    /\ Len(returns) = 2 /\ returns[1].n > 0 /\ returns[2].n < 0

WindowMean(s, i, w) == FDiv(FSum(SubSeq(s, i - w + 1, i)), Num(w))

\* C6: the moving-average column of window w is, at the w-th bar and after,
\* the arithmetic mean of the last w values of the field, and is missing
\* before; with fewer than w bars the whole column is missing.
C6_MovingAverageFormula ==
    PriceTabDone =>
        \A w \in {ma_short, ma_long} :
            LET field == data.col[price_column]
                ma == data.col[MAName(w)]
            IN  /\ Len(ma) = Len(field)
                /\ \A i \in 1..Len(field) :
                      ma[i] = IF i >= w THEN WindowMean(field, i, w) ELSE NaN

C6_Witness ==
    /\ PriceTabDone /\ ma_short = MA_SHORT_MIN /\ ma_long = MA_LONG_MIN
    /\ price_column = Column("Close")
    /\ NRows(data) = MA_SHORT_MIN + 1
    /\ IsNum(data.col[MAName(ma_short)][MA_SHORT_MIN])
    /\ IsNum(data.col[MAName(ma_short)][MA_SHORT_MIN + 1])
    /\ data.col[MAName(ma_short)][MA_SHORT_MIN]
          # data.col[MAName(ma_short)][MA_SHORT_MIN + 1]
    /\ \A i \in 1..NRows(data) : IsNaN(data.col[MAName(ma_long)][i])

\* C7: on a single-bar series the summary does not stop or fail: the daily
\* change is 0, the annualized volatility is N/A, and the last close is the
\* bar's price.
C7_SingleBarSummary ==
    (~data.none /\ NRows(data) = 1) =>
        /\ pc = "kpi" => StatsDone
        /\ StatsDone =>
              /\ daily_change_pct = Num(0)
              /\ IsNaN(annualized_vol)
              /\ last_close = AdjClose[1]
              /\ returns = <<>>
        /\ pc \in {"tab_price", "tab_returns", "tab_table", "done", "crashed"} =>
              /\ "kpi" \in rendered
              /\ kpi["Annualized Volatility"] = "N/A"
              /\ kpi["Daily Change"] = "value"

C7_Witness ==
    /\ ~data.none /\ NRows(data) = 1 /\ pc = "done"
    /\ IsNum(last_close) /\ kpi["Annualized Volatility"] = "N/A"

\* C8 as stated: with prices present and non-zero, the Annualized
\* Volatility card is N/A exactly when the series has fewer than 2 bars.
C8_VolDefinedFromTwoBars ==
    (StatsDone /\ Clean(AdjClose) /\ kpi # NoCards) =>
        (kpi["Annualized Volatility"] = "N/A" <=> NRows(data) < 2)

RECURSIVE SumSquares(_)
SumSquares(s) ==
    IF s = <<>> THEN Num(0)
    ELSE FAdd(SumSquares(SubSeq(s, 1, Len(s) - 1)), FMul(s[Len(s)], s[Len(s)]))

\* (n * sum(x^2) - sum(x)^2) / (n * (n - 1))
SampleVariance(s) ==
    FDiv(FSub(FMul(Num(Len(s)), SumSquares(s)), FMul(FSum(s), FSum(s))),
         Num(Len(s) * (Len(s) - 1)))

\* C8 amended: with prices present and non-zero, the annualized volatility
\* is N/A exactly when the series has fewer than 3 bars (fewer than 2
\* returns); from 3 bars on its square is 252 times the sample variance of
\* the returns.
C8_VolDefinedFromThreeBars ==
    (StatsDone /\ Clean(AdjClose)) =>
        /\ IsNaN(annualized_vol) <=> NRows(data) < 3
        /\ kpi # NoCards =>
              (kpi["Annualized Volatility"] = "N/A" <=> NRows(data) < 3)
        /\ NRows(data) >= 3 =>
              annualized_vol = FMul(Num(TRADING_DAYS), SampleVariance(returns))

C8_Witness ==
    /\ StatsDone /\ Clean(AdjClose) /\ NRows(data) = 3
    /\ kpi # NoCards /\ kpi["Annualized Volatility"] = "value"
    /\ IsNum(annualized_vol) /\ annualized_vol.n > 0

\* C9: for every choice of the two windows the table, and so the CSV
\* header, has two moving-average columns besides the date, the provider's
\* columns and the return.
C9_TwoMovingAverageColumns ==
    csv # <<>> =>
        /\ Cardinality({c \in Range(csv) : c[1] = "MA"}) = 2
        /\ Len(csv) = Len(response.outcome.frame.columns) + 4

\* C10: the statistics are computed only on a frame with at least one row:
\* load_price_data never returns a frame without rows, and a run without a
\* frame never reaches the statistics.
C10_StatsOnNonEmptySeries ==
    /\ (pc \in {"stats"} \cup AfterStats) => (~data.none /\ NRows(data) >= 1)
    /\ ~data.none => NRows(data) >= 1
    /\ \A k \in Keys :
          (cache[k].present /\ ~cache[k].value.none) => NRows(cache[k].value) >= 1
    /\ IsNaN(last_close) \/ StatsDone

C10_Witness ==
    /\ pc = "stats" /\ NRows(data) = 1 /\ response.called

====
